---- MODULE Spec2Model ----
(***************************************************************************)
(* The research pipeline of src/test1.py: main() runs research_agent       *)
(* (planner, then one search/scrape/chunk/index iteration per planned      *)
(* line) and generate_report (one vector query and one generation call     *)
(* per recorded question, then the template), then create_pdf and the      *)
(* preview.  External calls (the language model, the search API, HTTP      *)
(* fetches, the vector store) either return or raise; an exception that    *)
(* no handler in the file catches ends the run.                            *)
(***************************************************************************)
EXTENDS Integers, Sequences, FiniteSets, TLC

VARIABLES
    pc,             \* position of main(): idle, plan, research, report, pdf, preview, done, failed, warned
    runs,           \* number of "Start Research" clicks handled in this session
    topic,          \* the text input of the current run
    questions,      \* research_agent's local list: the planner response split into lines
    qi,             \* position of the loop of line 53 (1-based), then of the loop of line 100
    research_data,  \* st.session_state.research_data: <<>> while the key is absent, else <<dict>>
    chroma,         \* per Chroma client, the texts of its collection "research_db", in insertion order
    asked,          \* the queries handed to google_search in this run, in call order
    lastRetrieval,  \* the search result and the fetch outcomes of the latest loop iteration
    sections,       \* generate_report's local list
    report_content, \* main's local: <<>> until generate_report returned, then <<report>>
    pdf_file,       \* research_report.pdf on disk: <<>> while absent, else <<report written>>
    preview,        \* what st.markdown shows below "Research Preview" in this run
    failure         \* the call whose exception ended the run ("none" while none did)

vars == <<pc, runs, topic, questions, qi, research_data, chroma, asked,
          lastRetrieval, sections, report_content, pdf_file, preview, failure>>

\* ---------------------------------------------------------------- bounds
MaxLines == 6
SessionMaxLines == 2
MaxRuns == 2
MaxOrganic == 3

\* ------------------------------------------------------ program constants
PlanCap == 5
ResultCap == 2
ScrapeCap == 5000
chunk_size == 800
chunk_overlap == 100
TopK == 3

Min(a, b) == IF a < b THEN a ELSE b

Range(s) == {s[i] : i \in 1..Len(s)}

\* ------------------------------------------------------------ the inputs
\* The topics the user can type in the text input.
Topics == {"A", "B"}

\* Text of the planner's i-th line when it is a question about topic t.
QText(t, i) == t \o ToString(i)

\* A blank line of the planner response: empty, or spaces only.
BlankLine(i) == IF i % 2 = 1 THEN "" ELSE "  "

\* str.strip() on the lines that occur (question texts carry no outer blanks).
Strip(s) == IF s \in {"", " ", "  "} THEN "" ELSE s

\* The planner responses of at most n lines, already split at "\n" (line 49):
\* split never returns an empty list, and every line is blank or a question.
Responses(t, n) ==
    UNION { { [i \in 1..len |-> IF p[i] THEN QText(t, i) ELSE BlankLine(i)] :
              p \in [1..len -> BOOLEAN] } : len \in 1..n }

\* The web: three pages.  A text is named by its source, its length, whether
\* it is whitespace only, and its layout: words of `word` characters joined by
\* a whitespace separator of `sep` characters (word = 1, sep = 0: unbroken
\* characters).  L1 is a long article of 6-letter words, L2 a page of
\* whitespace only, L3 an empty body.
Links == <<"L1", "L2", "L3">>
EmptyText == [src |-> "", len |-> 0, ws |-> FALSE, word |-> 1, sep |-> 0]
Page(url) ==
    CASE url = "L1" -> [src |-> "L1", len |-> 12000, ws |-> FALSE, word |-> 6, sep |-> 1]
      [] url = "L2" -> [src |-> "L2", len |-> 40, ws |-> TRUE, word |-> 1, sep |-> 0]
      [] OTHER      -> EmptyText
Title(url) == "T-" \o url

\* Position of a question text in its planner response.
LineNo(q) ==
    IF \E i \in 1..(MaxLines + 1), t \in Topics : QText(t, i) = q
    THEN CHOOSE i \in 1..(MaxLines + 1) : \E t \in Topics : QText(t, i) = q
    ELSE 1

\* The search engine's ranking for query q: the pages in a rotation that
\* depends on the query; the API returns a prefix of it.
Ranked(q, k) == Links[((LineNo(q) + k - 2) % Len(Links)) + 1]
Organic(q, n) == [k \in 1..n |-> [title |-> Title(Ranked(q, k)), link |-> Ranked(q, k)]]

\* ------------------------------------------------------------ web_scraper
\* response.text[:5000], or "" when requests.get raised (lines 30-36).
web_scraper(url, ok) ==
    IF ~ok THEN EmptyText
    ELSE LET p == Page(url) IN
         IF p.len = 0 THEN EmptyText ELSE [p EXCEPT !.len = Min(p.len, ScrapeCap)]

\* Python truthiness of a string (line 63).
Truthy(content) == content.len > 0

\* -------------------------------------------------------- process_content
\* RecursiveCharacterTextSplitter(chunk_size, chunk_overlap).split_text on a
\* text whose pieces are shorter than chunk_size.  The text is split at its
\* separator, each separator kept in front of the piece that follows it (an
\* unbroken text is split into characters); pieces are then merged: a chunk is
\* closed when the next piece would make it longer than chunk_size, the next
\* chunk keeps the trailing pieces of the closed one that total at most
\* chunk_overlap and leave room for the next piece, and every chunk is stripped
\* of outer whitespace, an empty one being left out.
CeilDiv(x, d) == IF x <= 0 THEN 0 ELSE (x + d - 1) \div d

\* Number of pieces of the split: with a separator, text that ends right after
\* one has a last piece holding that separator alone.
NumPieces(content) ==
    LET u == content.word + content.sep
    IN  IF content.sep > 0 THEN content.len \div u + 1
        ELSE CeilDiv(content.len, u)

\* Position of the last character of piece i (piece 0 ends at 0).
PieceEnd(content, i) ==
    IF i = 0 THEN 0
    ELSE IF i >= NumPieces(content) THEN content.len
    ELSE (i - 1) * (content.word + content.sep) + content.word

\* The stripped chunk made of pieces x..y, as <<>> or <<[src, from, to]>>.
StrippedChunk(content, x, y) ==
    LET u       == content.word + content.sep
        n       == NumPieces(content)
        sepOnly == content.sep > 0 /\ content.len % u = 0
        from    == (x - 1) * u + 1
        to      == IF y = n /\ sepOnly THEN (n - 2) * u + content.word
                   ELSE Min(content.len, (y - 1) * u + content.word)
    IN  IF from > to THEN <<>>
        ELSE <<[src |-> content.src, from |-> from, to |-> to]>>

\* _merge_splits from the chunk that starts at piece a on.
RECURSIVE MergeSplits(_, _)
MergeSplits(content, a) ==
    LET u     == content.word + content.sep
        n     == NumPieces(content)
        room  == PieceEnd(content, a - 1) + chunk_size
        y     == IF content.len <= room THEN n
                 ELSE Min(n - 1, (room - content.word) \div u + 1)
    IN  IF y >= n THEN StrippedChunk(content, a, n)
        ELSE LET next == PieceEnd(content, y + 1) - PieceEnd(content, y)
                 keep == Min(chunk_overlap, chunk_size - next)
                 low  == 2 + CeilDiv(PieceEnd(content, y) - keep - content.word, u)
                 a2   == Min(y + 1, IF low > a + 1 THEN low ELSE a + 1)
             IN  StrippedChunk(content, a, y) \o MergeSplits(content, a2)

process_content(content) ==
    IF content.ws \/ content.len = 0 THEN <<>>
    ELSE MergeSplits(content, 1)

\* ------------------------------------------------------------ google_search
\* The JSON bodies the search API can answer with (line 28): an object without
\* an "organic" key (an error body), or one whose "organic" list is a prefix
\* of the ranking.
SearchReplies(q) ==
    {[hasOrganic |-> FALSE, organic |-> <<>>]}
        \cup {[hasOrganic |-> TRUE, organic |-> Organic(q, n)] : n \in 0..MaxOrganic}

\* search_results.get("organic", [])[:2] (line 61).
TopResults(search_results) ==
    LET organic == IF search_results.hasOrganic THEN search_results.organic ELSE <<>>
    IN  SubSeq(organic, 1, Min(ResultCap, Len(organic)))

\* ------------------------------------------- research_agent, lines 59 to 69
\* A fetch failure of one result stops the remaining results of the question.
RECURSIVE RetrieveSourcesAbortOnFailure(_, _)
RetrieveSourcesAbortOnFailure(results, oks) ==
    IF results = <<>> \/ ~Head(oks) THEN <<>>
    ELSE LET result  == Head(results)
             content == web_scraper(result.link, Head(oks))
             rest    == RetrieveSourcesAbortOnFailure(Tail(results), Tail(oks))
         IN  IF Truthy(content)
             THEN <<[title |-> result.title, link |-> result.link,
                     content |-> process_content(content)]>> \o rest
             ELSE rest

\* The inner loop: oks[i] says whether requests.get returned for results[i].
RECURSIVE RetrieveSources(_, _)
RetrieveSources(results, oks) ==
    IF results = <<>> THEN <<>>
    ELSE LET result  == Head(results)
             content == web_scraper(result.link, Head(oks))
             rest    == RetrieveSources(Tail(results), Tail(oks))
         IN  IF Truthy(content)
             THEN <<[title |-> result.title, link |-> result.link,
                     content |-> process_content(content)]>> \o rest
             ELSE rest

\* The guard dropped: every question is indexed and recorded.
UsableAlways(sources) == TRUE

\* "if sources:" (line 72).
Usable(sources) == sources # <<>>

\* The texts of lines 73-74, "Source: {title}\nContent: {chunk}", source by
\* source and chunk by chunk.
RECURSIVE Docs(_)
Docs(sources) ==
    IF sources = <<>> THEN <<>>
    ELSE LET s == Head(sources)
         IN  [i \in 1..Len(s.content) |-> [title |-> s.title, chunk |-> s.content[i]]]
                 \o Docs(Tail(sources))

\* The two Chroma clients of the file: the persistent one of line 75
\* (persist_directory="./chroma_db") and the one of line 102, built without
\* a persist_directory, which is an in-memory client of its own.
WriteClient == "./chroma_db"
QueryClient == "in-memory"
Clients == {WriteClient, QueryClient}

\* The questions recorded in st.session_state.research_data.
RunState == IF research_data = <<>> THEN <<>> ELSE research_data[1].questions

\* questions[:5] (line 53).
LoopLines(qs) == SubSeq(qs, 1, Min(PlanCap, Len(qs)))

NoRetrieval == [q |-> "", results |-> <<>>, ok |-> <<>>]

\* ------------------------------------------------------------------- Init
Init ==
    /\ pc = "idle"
    /\ runs = 0
    /\ topic = ""
    /\ questions = <<>>
    /\ qi = 1
    /\ research_data = <<>>
    /\ chroma = [c \in Clients |-> <<>>]
    /\ asked = <<>>
    /\ lastRetrieval = NoRetrieval
    /\ sections = <<>>
    /\ report_content = <<>>
    /\ pdf_file = <<>>
    /\ preview = <<>>
    /\ failure = "none"

\* ------------------------------------------------------- main, lines 157-181
\* The button is clicked with a topic in the box.
StartResearch ==
    /\ pc = "idle"
    /\ \E t \in Topics : topic' = t
    /\ runs' = runs + 1
    /\ pc' = "plan"
    /\ UNCHANGED <<questions, qi, research_data, chroma, asked, lastRetrieval,
                   sections, report_content, pdf_file, preview, failure>>

\* The button is clicked with the box empty: st.warning, nothing else.
EmptyTopicWarning ==
    /\ pc = "idle"
    /\ topic' = ""
    /\ runs' = runs + 1
    /\ pc' = "warned"
    /\ UNCHANGED <<questions, qi, research_data, chroma, asked, lastRetrieval,
                   sections, report_content, pdf_file, preview, failure>>

\* ------------------------------------------- research_agent, lines 47 to 50
\* The planner call returns but research_data is left as the session holds it.
PlannerAgentKeepsData(n) ==
    /\ pc = "plan"
    /\ \E resp \in Responses(topic, n) : questions' = resp
    /\ research_data' = IF research_data = <<>>
                        THEN <<[topic |-> topic, questions |-> <<>>, sources |-> <<>>]>>
                        ELSE research_data
    /\ qi' = 1
    /\ pc' = "research"
    /\ UNCHANGED <<runs, topic, chroma, asked, lastRetrieval, sections,
                   report_content, pdf_file, preview, failure>>

\* The planner call returns a response of at most n lines; research_data is
\* replaced by a fresh dict.
PlannerAgent(n) ==
    /\ pc = "plan"
    /\ \E resp \in Responses(topic, n) : questions' = resp
    /\ research_data' = <<[topic |-> topic, questions |-> <<>>, sources |-> <<>>]>>
    /\ qi' = 1
    /\ pc' = "research"
    /\ UNCHANGED <<runs, topic, chroma, asked, lastRetrieval, sections,
                   report_content, pdf_file, preview, failure>>

\* llm.invoke of line 49 raises: line 50 is not reached.
PlannerRaises ==
    /\ pc = "plan"
    /\ failure' = "planning"
    /\ pc' = "failed"
    /\ UNCHANGED <<runs, topic, questions, qi, research_data, chroma, asked,
                   lastRetrieval, sections, report_content, pdf_file, preview>>

\* ------------------------------------------- research_agent, lines 53 to 80
InLoop == pc = "research" /\ qi <= Len(LoopLines(questions))

\* "if not q.strip(): continue".
SkipBlank ==
    /\ InLoop
    /\ Strip(questions[qi]) = ""
    /\ qi' = qi + 1
    /\ UNCHANGED <<pc, runs, topic, questions, research_data, chroma, asked,
                   lastRetrieval, sections, report_content, pdf_file, preview, failure>>

\* requests.post or response.json() raises in google_search: nothing in
\* google_search or research_agent catches it.
SearchRaises ==
    /\ InLoop
    /\ Strip(questions[qi]) # ""
    /\ asked' = Append(asked, questions[qi])
    /\ failure' = "search"
    /\ pc' = "failed"
    /\ UNCHANGED <<runs, topic, questions, qi, research_data, chroma,
                   lastRetrieval, sections, report_content, pdf_file, preview>>

\* One iteration in which every call returns: search, fetch and chunk the
\* first two results, then, if there are sources, index and record.
ResearchQuestion ==
    /\ InLoop
    /\ Strip(questions[qi]) # ""
    /\ \E search_results \in SearchReplies(questions[qi]) :
       \E oks \in [1..Len(TopResults(search_results)) -> BOOLEAN] :
          LET q       == questions[qi]
              results == TopResults(search_results)
              sources == RetrieveSources(results, oks)
          IN  /\ lastRetrieval' = [q |-> q, results |-> results, ok |-> oks]
              /\ IF Usable(sources)
                 THEN /\ chroma' = [chroma EXCEPT ![WriteClient] = @ \o Docs(sources)]
                      /\ research_data' =
                            <<[research_data[1] EXCEPT !.questions =
                                 Append(@, [question |-> q, sources |-> sources])]>>
                 ELSE UNCHANGED <<chroma, research_data>>
    /\ asked' = Append(asked, questions[qi])
    /\ qi' = qi + 1
    /\ UNCHANGED <<pc, runs, topic, questions, sections, report_content,
                   pdf_file, preview, failure>>

\* The question is recorded first and Chroma.from_texts raises afterwards.
IndexWriteFailsAfterRecord ==
    /\ InLoop
    /\ Strip(questions[qi]) # ""
    /\ \E search_results \in SearchReplies(questions[qi]) :
       \E oks \in [1..Len(TopResults(search_results)) -> BOOLEAN] :
          LET q       == questions[qi]
              results == TopResults(search_results)
              sources == RetrieveSources(results, oks)
          IN  /\ Usable(sources)
              /\ lastRetrieval' = [q |-> q, results |-> results, ok |-> oks]
              /\ research_data' =
                    <<[research_data[1] EXCEPT !.questions =
                         Append(@, [question |-> q, sources |-> sources])]>>
    /\ asked' = Append(asked, questions[qi])
    /\ failure' = "index"
    /\ pc' = "failed"
    /\ UNCHANGED <<runs, topic, questions, qi, chroma, sections,
                   report_content, pdf_file, preview>>

\* Chroma.from_texts (line 75) raises: line 77 is not reached.
IndexWriteFails ==
    /\ InLoop
    /\ Strip(questions[qi]) # ""
    /\ \E search_results \in SearchReplies(questions[qi]) :
       \E oks \in [1..Len(TopResults(search_results)) -> BOOLEAN] :
          LET q       == questions[qi]
              results == TopResults(search_results)
              sources == RetrieveSources(results, oks)
          IN  /\ Usable(sources)
              /\ lastRetrieval' = [q |-> q, results |-> results, ok |-> oks]
    /\ asked' = Append(asked, questions[qi])
    /\ failure' = "index"
    /\ pc' = "failed"
    /\ UNCHANGED <<runs, topic, questions, qi, research_data, chroma, sections,
                   report_content, pdf_file, preview>>

\* The loop is exhausted: research_agent returns and generate_report starts.
ResearchReturns ==
    /\ pc = "research"
    /\ qi > Len(LoopLines(questions))
    /\ pc' = "report"
    /\ qi' = 1
    /\ sections' = <<>>
    /\ UNCHANGED <<runs, topic, questions, research_data, chroma, asked,
                   lastRetrieval, report_content, pdf_file, preview, failure>>

\* ------------------------------------------ generate_report, lines 99 to 121
\* db.similarity_search(question, k): k texts of the client's collection (all
\* of them when it holds fewer), in an order the embedding decides.
similarity_search(client, question, k) ==
    LET coll == chroma[client]
        n    == Min(k, Len(coll))
    IN  { [i \in 1..n |-> coll[pick[i]]] :
          pick \in {f \in [1..n -> 1..Len(coll)] :
                      \A i, j \in 1..n : i # j => f[i] # f[j]} }

\* The text the model returns for a prompt, named by what the prompt holds
\* (lines 106-110).
llm_invoke(question, docs) == [prompt_question |-> question, prompt_context |-> docs]

\* The new section is put in front of the list.
SynthesizeSectionInFront ==
    /\ pc = "report"
    /\ qi <= Len(RunState)
    /\ LET item == RunState[qi]
       IN  \E docs \in similarity_search(QueryClient, item.question, TopK) :
              sections' = <<[title   |-> item.question,
                             content |-> llm_invoke(item.question, docs),
                             sources |-> item.sources]>> \o sections
    /\ qi' = qi + 1
    /\ UNCHANGED <<pc, runs, topic, questions, research_data, chroma, asked,
                   lastRetrieval, report_content, pdf_file, preview, failure>>

\* One iteration of the loop of line 100: query, generate, append.
SynthesizeSection ==
    /\ pc = "report"
    /\ qi <= Len(RunState)
    /\ LET item == RunState[qi]
       IN  \E docs \in similarity_search(QueryClient, item.question, TopK) :
              sections' = Append(sections,
                                 [title   |-> item.question,
                                  content |-> llm_invoke(item.question, docs),
                                  sources |-> item.sources])
    /\ qi' = qi + 1
    /\ UNCHANGED <<pc, runs, topic, questions, research_data, chroma, asked,
                   lastRetrieval, report_content, pdf_file, preview, failure>>

\* Template(report_template).render: the topic, then per section its title,
\* its content and the title and link of each source.
Render(t, secs) ==
    [topic    |-> t,
     sections |-> [i \in 1..Len(secs) |->
                     [title   |-> secs[i].title,
                      content |-> secs[i].content,
                      sources |-> [j \in 1..Len(secs[i].sources) |->
                                     [title |-> secs[i].sources[j].title,
                                      link  |-> secs[i].sources[j].link]]]]]

\* The failure is swallowed and the sections made so far are rendered.
SynthesisRaisesPartialReport ==
    /\ pc = "report"
    /\ qi <= Len(RunState)
    /\ failure' = "synthesis"
    /\ report_content' = <<Render(research_data[1].topic, sections)>>
    /\ pc' = "failed"
    /\ UNCHANGED <<runs, topic, questions, qi, research_data, chroma, asked,
                   lastRetrieval, sections, pdf_file, preview>>

\* The query or llm.invoke of line 110 raises: nothing catches it.
SynthesisRaises ==
    /\ pc = "report"
    /\ qi <= Len(RunState)
    /\ failure' = "synthesis"
    /\ pc' = "failed"
    /\ UNCHANGED <<runs, topic, questions, qi, research_data, chroma, asked,
                   lastRetrieval, sections, report_content, pdf_file, preview>>

\* Lines 118-121 and the assignment of line 163.
RenderReport ==
    /\ pc = "report"
    /\ qi > Len(RunState)
    /\ report_content' = <<Render(research_data[1].topic, sections)>>
    /\ pc' = "pdf"
    /\ UNCHANGED <<runs, topic, questions, qi, research_data, chroma, asked,
                   lastRetrieval, sections, pdf_file, preview, failure>>

\* ------------------------------------------------- create_pdf, lines 123-140
\* Every call returns: the old file is removed and the new one written.
create_pdf ==
    /\ pc = "pdf"
    /\ pdf_file' = report_content
    /\ pc' = "preview"
    /\ UNCHANGED <<runs, topic, questions, qi, research_data, chroma, asked,
                   lastRetrieval, sections, report_content, preview, failure>>

\* pdf.multi_cell (line 132) raises: the file on disk is not touched yet, and
\* nothing in create_pdf or main catches the exception.
PdfLayoutRaises ==
    /\ pc = "pdf"
    /\ failure' = "pdf_layout"
    /\ pc' = "failed"
    /\ UNCHANGED <<runs, topic, questions, qi, research_data, chroma, asked,
                   lastRetrieval, sections, report_content, pdf_file, preview>>

\* pdf.output (line 138) raises after the old file was removed (line 136).
PdfOutputRaises ==
    /\ pc = "pdf"
    /\ pdf_file' = <<>>
    /\ failure' = "pdf_output"
    /\ pc' = "failed"
    /\ UNCHANGED <<runs, topic, questions, qi, research_data, chroma, asked,
                   lastRetrieval, sections, report_content, preview>>

\* ------------------------------------------------------ main, lines 177-178
ShowPreview ==
    /\ pc = "preview"
    /\ preview' = report_content
    /\ pc' = "done"
    /\ UNCHANGED <<runs, topic, questions, qi, research_data, chroma, asked,
                   lastRetrieval, sections, report_content, pdf_file, failure>>

\* The script is run again for the next click: the locals and the page are
\* new, the session state, the store and the file on disk stay.
Rerun ==
    /\ pc \in {"done", "failed", "warned"}
    /\ runs < MaxRuns
    /\ pc' = "idle"
    /\ questions' = <<>>
    /\ qi' = 1
    /\ asked' = <<>>
    /\ lastRetrieval' = NoRetrieval
    /\ sections' = <<>>
    /\ report_content' = <<>>
    /\ preview' = <<>>
    /\ failure' = "none"
    /\ UNCHANGED <<runs, topic, research_data, chroma, pdf_file>>

\* ------------------------------------------------------ the specifications
\* One run of the pipeline, planner responses of up to MaxLines lines.
Next ==
    \/ StartResearch
    \/ EmptyTopicWarning
    \/ PlannerAgent(MaxLines)
    \/ PlannerRaises
    \/ SkipBlank
    \/ SearchRaises
    \/ ResearchQuestion
    \/ IndexWriteFails
    \/ ResearchReturns
    \/ SynthesizeSection
    \/ SynthesisRaises
    \/ RenderReport
    \/ create_pdf
    \/ PdfLayoutRaises
    \/ PdfOutputRaises
    \/ ShowPreview

Spec == Init /\ [][Next]_vars

\* Up to MaxRuns runs in one session, planner responses of up to
\* SessionMaxLines lines.
NextSession ==
    \/ StartResearch
    \/ EmptyTopicWarning
    \/ PlannerAgent(SessionMaxLines)
    \/ PlannerRaises
    \/ SkipBlank
    \/ SearchRaises
    \/ ResearchQuestion
    \/ IndexWriteFails
    \/ ResearchReturns
    \/ SynthesizeSection
    \/ SynthesisRaises
    \/ RenderReport
    \/ create_pdf
    \/ PdfLayoutRaises
    \/ PdfOutputRaises
    \/ ShowPreview
    \/ Rerun

SpecSession == Init /\ [][NextSession]_vars

\* ---------------------------------------------------- helpers of the claims
Last(s) == s[Len(s)]

RECURSIVE IsSubseq(_, _)
IsSubseq(a, b) ==
    IF a = <<>> THEN TRUE
    ELSE IF b = <<>> THEN FALSE
    ELSE IF Head(a) = Head(b) THEN IsSubseq(Tail(a), Tail(b))
    ELSE IsSubseq(a, Tail(b))

NonBlank(qs) == SelectSeq(qs, LAMBDA q : Strip(q) # "")

FirstN(s, n) == SubSeq(s, 1, Min(n, Len(s)))

Recorded(q) == \E i \in 1..Len(RunState) : RunState[i].question = q

\* The results of the latest iteration whose fetch did not raise.
RECURSIVE Survivors(_, _)
Survivors(results, oks) ==
    IF results = <<>> THEN <<>>
    ELSE IF Head(oks) THEN <<Head(results)>> \o Survivors(Tail(results), Tail(oks))
    ELSE Survivors(Tail(results), Tail(oks))

\* What the latest question yields when only the surviving results had been
\* returned and every fetch had succeeded.
SourcesWithoutFailure ==
    LET alive == Survivors(lastRetrieval.results, lastRetrieval.ok)
    IN  RetrieveSources(alive, [i \in 1..Len(alive) |-> TRUE])

\* ------------------------------------------------------------------ claims
\* C1: every question recorded in research_data["questions"] has a non-empty
\* list of sources, in every state during and after the researcher loop; a
\* question whose results gave no non-empty content is not recorded.
DropInvariant ==
    /\ \A i \in 1..Len(RunState) : RunState[i].sources # <<>>
    /\ (lastRetrieval.q # "" /\ SourcesWithoutFailure = <<>>) => ~Recorded(lastRetrieval.q)

\* C1 witness: the loop has dropped the question it just searched (no result
\* gave content) while an earlier question of the run is recorded.
DropWitness ==
    /\ pc = "research"
    /\ failure = "none"
    /\ lastRetrieval.q # ""
    /\ lastRetrieval.results # <<>>
    /\ SourcesWithoutFailure = <<>>
    /\ Len(RunState) >= 1

\* C2: a failing search is recovered locally: no run ends because
\* google_search raised, and a question without organic results is not
\* recorded while the run goes on.
SearchFailureRecovered ==
    /\ failure # "search"
    /\ (lastRetrieval.q # "" /\ lastRetrieval.results = <<>>) => ~Recorded(lastRetrieval.q)

\* C3: a fetch that raises is skipped and nothing else: no run ends because
\* of it, and the question is recorded with exactly the sources its other
\* results give (or dropped when they give none), as if the failed result had
\* not been there.
FetchFailureSkipsOnlyThatResult ==
    /\ failure # "fetch"
    /\ (lastRetrieval.q # "" /\ failure # "index") =>
          IF SourcesWithoutFailure = <<>>
          THEN ~Recorded(lastRetrieval.q)
          ELSE /\ RunState # <<>>
               /\ Last(RunState) = [question |-> lastRetrieval.q,
                                    sources  |-> SourcesWithoutFailure]

\* C3 witness: the first fetch of a question raised, the second returned text,
\* and the question is recorded with the chunks of the second result.
FetchFailureWitness ==
    /\ lastRetrieval.ok = <<FALSE, TRUE>>
    /\ failure = "none"
    /\ RunState # <<>>
    /\ Last(RunState).question = lastRetrieval.q
    /\ Len(Last(RunState).sources) = 1
    /\ Last(RunState).sources[1].link = lastRetrieval.results[2].link
    /\ Len(Last(RunState).sources[1].content) > 1

\* C4: the questions that are researched are the first 5 non-blank lines of
\* the planner response (all of them when there are fewer), in order.
PlanIsFirstFiveNonBlank ==
    pc = "report" => asked = FirstN(NonBlank(questions), PlanCap)

\* C5: the report has one section per recorded question, in the recorded
\* order, with that question's sources in search-result order, and the
\* section titles are a subsequence of the planner's lines.
ReportOrder ==
    report_content # <<>> =>
        LET secs == report_content[1].sections
        IN  /\ Len(secs) = Len(RunState)
            /\ \A i \in 1..Len(secs) :
                  /\ secs[i].title = RunState[i].question
                  /\ secs[i].sources =
                        [j \in 1..Len(RunState[i].sources) |->
                            [title |-> RunState[i].sources[j].title,
                             link  |-> RunState[i].sources[j].link]]
                  /\ IsSubseq(secs[i].sources, Organic(secs[i].title, ResultCap))
            /\ IsSubseq([i \in 1..Len(secs) |-> secs[i].title], NonBlank(questions))

\* C5 witness: a finished run whose report has at least two sections, fewer
\* than the questions that were researched.
ReportOrderWitness ==
    /\ pc = "done"
    /\ Len(report_content[1].sections) >= 2
    /\ Len(report_content[1].sections) < Len(asked)

\* C6: every source recorded for a question has at least one chunk.
ChunksNonEmpty ==
    \A i \in 1..Len(RunState) :
        \A j \in 1..Len(RunState[i].sources) : RunState[i].sources[j].content # <<>>

\* C7: while the sections are synthesized, every text the researcher indexed
\* for the recorded questions is in the collection the query reads.
QueryReadsIndexedCollection ==
    (pc = "report" /\ qi <= Len(RunState)) =>
        \A i \in 1..Len(RunState) :
            Range(Docs(RunState[i].sources)) \subseteq Range(chroma[QueryClient])

\* C8: a run ended by a failing planner call, index write or synthesis call
\* has rendered no report, written no PDF and shown no preview.
FatalAbortsWithoutReport ==
    failure \in {"planning", "index", "synthesis"} =>
        /\ pc = "failed"
        /\ report_content = <<>>
        /\ pdf_file = <<>>
        /\ preview = <<>>

\* C8 witness: the synthesis call failed after a section had been made.
FatalAbortWitness ==
    /\ pc = "failed"
    /\ failure = "synthesis"
    /\ Len(sections) >= 1

\* C9: every chunk of every recorded question is in the collection the
\* researcher writes, a question whose index write failed is not recorded,
\* and the report phase starts only after every planned line was handled.
IndexBeforeRecord ==
    /\ \A i \in 1..Len(RunState) :
          Range(Docs(RunState[i].sources)) \subseteq Range(chroma[WriteClient])
    /\ failure = "index" => ~Recorded(lastRetrieval.q)
    /\ pc \in {"report", "pdf", "preview", "done"} =>
          asked = NonBlank(LoopLines(questions))

\* C9 witness: an index write failed for a question with chunks after an
\* earlier question with chunks had been indexed and recorded.
IndexBeforeRecordWitness ==
    /\ failure = "index"
    /\ Docs(SourcesWithoutFailure) # <<>>
    /\ Len(RunState) >= 1
    /\ Docs(RunState[1].sources) # <<>>

\* C10: in a session of several runs, a report carries the topic of the run
\* that made it and sections only for lines planned in that run, and the PDF
\* and the preview a finished run leaves are that report.
RunIsolation ==
    /\ report_content # <<>> =>
          /\ report_content[1].topic = topic
          /\ \A i \in 1..Len(report_content[1].sections) :
                report_content[1].sections[i].title \in Range(questions)
    /\ pc \in {"preview", "done"} => pdf_file = report_content
    /\ pc = "done" => preview = report_content

\* C10 witness: a later run has rendered its report while the PDF of an
\* earlier run, with another topic and a section, is still on disk.
RunIsolationWitness ==
    /\ runs >= 2
    /\ pc = "pdf"
    /\ pdf_file # <<>>
    /\ pdf_file[1].topic # topic
    /\ pdf_file[1].sections # <<>>
    /\ report_content[1].sections # <<>>

====
